---- MODULE Spec2Model ----
(***************************************************************************)
(* A model of the Armis MCP client: the run blocks of the Streamlit app    *)
(* (src/app.py), the run store (src/history.py), the orchestrator          *)
(* coroutines (src/main.py), the Remote Tool Session ArmisMCPClient        *)
(* (src/mcp_client.py) and the agent loop query_with_tools (src/llm.py).   *)
(*                                                                         *)
(* Texts are sequences of tokens, so that formatting (an f-string) is a    *)
(* concatenation and not the identity.  A nullable value is a record       *)
(* [null, val].  The chat backend and the tool server are the environment: *)
(* their replies and outcomes are drawn from the small sets below.         *)
(* Of the status lines a step reports, the log keeps the ones that tell    *)
(* what happened (one per block of lines); the rulers and the lines that   *)
(* repeat the configuration are left out.                                  *)
(***************************************************************************)
EXTENDS Integers, Sequences, FiniteSets, TLC

\* ------------------------------------------------------------ constants
\* llm.py:6
MAX_TOOL_ITERATIONS == 5

\* ------------------------------------------------------------ bounds
\* tool calls the scripted chat backend requests in total, over all runs
MaxToolCalls == 5
\* tool calls of the agent loop the server fails in total, over all runs
MaxToolFailures == 1
\* update_run calls made on the run store taken alone
MaxUpdates == 2
\* call_tool calls made on the session taken alone
MaxHbCalls == 2
\* heartbeat lines one call_tool call is given time for
MaxBeats == 2
\* tokens of a template body handed to the parser taken alone
MaxBodyLen == 3
\* save_run calls made on the history directory taken alone
MaxSaves == 2
\* files of the history directory that get damaged
MaxDamaged == 1
\* update_run calls begun on the history directory taken alone
MaxDirUpdates == 1
\* lines of a Tools section handed to the tools parser taken alone
MaxToolLines == 3

\* ------------------------------------------------------------ values
NoneText == [null |-> TRUE, val |-> << >>]
SomeText(t) == [null |-> FALSE, val |-> t]
NoneTime == [null |-> TRUE, val |-> 0]
SomeTime(t) == [null |-> FALSE, val |-> t]
NoneList == [null |-> TRUE, val |-> << >>]
SomeList(l) == [null |-> FALSE, val |-> l]
NoPromptId == [null |-> TRUE, val |-> ""]
SomePromptId(p) == [null |-> FALSE, val |-> p]

\* the values uuid4().hex[:8] gives, the random part of a run id, in the
\* order it gives them
UuidValues == <<"1f0e", "c4a2">>

\* a tool descriptor: its name and the property names of its inputSchema,
\* in declaration order
Tool(name, props) == [name |-> name, props |-> props]
\* tool lists the server may answer list_tools with
ToolLists == {<< >>, <<Tool("lookup", <<"foo", "question">>),
                       Tool("search", << >>)>>}

\* a tool call: the name and the arguments dict, a list of <<field, text>>
ToolCall(name, arguments) == [name |-> name, arguments |-> arguments]
CallLookup == ToolCall("lookup", << <<"question", <<"printers">>>> >>)
CallSearch == ToolCall("search", << >>)
\* tool-call lists a backend reply may carry; << >> is "no tool calls".
\* The backend asks only for tools of the schema list it was given
ToolCallLists == {<< >>, <<CallLookup>>, <<CallSearch, CallLookup>>}

\* text content of a reply that ends the loop or answers analyze_data;
\* NoneText is a reply without the content key
FinalContents == {NoneText, SomeText(<< >>), SomeText(<<"answer">>)}
\* text content of a reply that requests tools
ToolTurnContents == {SomeText(<<"checking">>)}
\* text a tool call of the agent loop returns
ToolTexts == {<<"data">>}
\* text the deterministic query returns
QueryTexts == {<< >>, <<" ", "\n">>, <<"no risk">>}
\* messages of the ordinary exceptions the environment raises
ToolErrors == {<<"timeout">>}
ConnectError == <<"connection refused">>
ChatError == <<"ollama unreachable">>

\* prompts.py build_system_prompt: the role and the rules documents
SystemPrompt == <<"role", "\n\n", "rules">>
\* the question typed into the free-form block
Question == <<"which devices?">>

\* the run blocks of app.py and what they run
Modes == {"freeform", "prompt", "custom"}
\* the templates a prompt run is started on; "missing" has no file
Templates == {"missing", "llm-only", "mac-risk"}

\* ------------------------------------------------------------ state
VARIABLES
    appPc,        \* app.py run block: "idle", "try", "ended", "killed"
    exitPath,     \* how the last run block ended
    escaped,      \* the exception that left the last run block
    run_id,       \* app.py run_id of the run in progress
    runs,         \* number of runs started
    store,        \* context/history: run id -> record
    updateCalls,  \* update_run calls made so far, with their arguments
    now,          \* the clock
    mode,         \* which orchestrator coroutine the run block runs
    template,     \* the template of a prompt run
    log,          \* app.py log, the lines on_status collected
    pc,           \* position of the coroutine under run_async
    exc,          \* exception propagating out of the coroutine
    ret,          \* value returned by the agent loop / the coroutine
    nChat,        \* ollama.chat invocations of this run
    entered,      \* __aenter__ returned: __aexit__ runs on the way out
    cm,           \* ArmisMCPClient._cm: "none", "open", "closed"
    session,      \* ArmisMCPClient._session: "none", "open", "closed"
    tools,        \* ArmisMCPClient._tools, the cached tool list
    nList,        \* list requests sent to the server by this session
    inflight,     \* calls in flight on the session
    callLog,      \* calls started on the session by this run, in order
    settled,      \* what the server answered to each call, in order
    messages,     \* query_with_tools messages
    iteration,    \* query_with_tools iteration, counted from 0
    tool_calls,   \* tool calls of the assistant message being served
    idx,          \* position in tool_calls of the call being served
    parsed,       \* the ParsedPrompt of a prompt run
    mcp_data,     \* main.py mcp_data, the fetched text
    sent,         \* the user prompt handed to analyze_data
    budget,       \* tool calls the backend may still request
    faults,       \* tool calls of the agent loop failed so far
    task,         \* _with_heartbeat task, the heartbeat task
    ready,        \* the tasks the event loop will resume, in order
    elapsed,      \* heartbeat elapsed, in intervals
    body,         \* the text of a template handed to the parser
    variables,    \* the variables of a template, <<name, value>> each
    built,        \* the template with its variables filled in, or None
    damaged,      \* context/history: run id -> what is wrong with its file
    listing,      \* what the last list_runs gave
    cleared,      \* the count the last clear_history returned
    pending,      \* update_run between its read and its write: the entry
    declared      \* the tools a prompt declares, as last extracted

appVars == <<appPc, exitPath, escaped, run_id, runs, store, updateCalls, now>>
inVars == <<mode, template>>
clientVars == <<entered, cm, session, tools, nList>>
callVars == <<inflight, callLog, settled>>
loopVars == <<messages, iteration, tool_calls, idx>>
paVars == <<parsed, mcp_data, sent>>
envVars == <<budget, faults>>
dirVars == <<damaged, listing, cleared, pending>>
isoVars == <<task, ready, elapsed, body, variables, built, dirVars, declared>>
vars == <<appPc, exitPath, escaped, run_id, runs, store, updateCalls, now,
          mode, template, log, pc, exc, ret, nChat, entered, cm, session,
          tools, nList, inflight, callLog, settled, messages, iteration,
          tool_calls, idx, parsed, mcp_data, sent, budget, faults, task,
          ready, elapsed, body, variables, built, damaged, listing, cleared,
          pending, declared>>

NoExc == [kind |-> "none", msg |-> << >>]
Exc(kind, msg) == [kind |-> kind, msg |-> msg]

\* ------------------------------------------------------------ helpers
\* fault model for Last: messages[-2]
LastButOne(s) == s[Len(s) - 1]

\* messages[-1]
Last(s) == s[Len(s)]

Range(s) == {s[i] : i \in 1..Len(s)}

\* fault model for GetContent: the text is cut to its first token
GetContentCut(m) ==
    IF m.content.null \/ m.content.val = << >> THEN << >>
    ELSE <<m.content.val[1], "...">>

\* dict.get("content", ""): the value when the key is there, else ""
GetContent(m) == IF m.content.null THEN << >> ELSE m.content.val

Message(role, content, calls) ==
    [role |-> role, content |-> content, tool_calls |-> calls]

\* app.py on_status: the line is appended to log; a failure of the
\* display (an Exception) is swallowed
OnStatus(l, line) == Append(l, line)

\* ------------------------------------------------------------ run store
EmptyStore == [i \in {} |-> 0]
NoRun == [ts |-> 0 - 1, sfx |-> ""]

\* datetime.now(): time has passed since the last reading of the clock
ClockAfter(t) == t + 1

\* history.py save_run, line 19: the id is the second and a random suffix,
\* the n-th value of uuid4 for the n-th run
NewRunId(t, n) == [ts |-> t, sfx |-> UuidValues[n]]

\* fault model for NewEntry: the new entry is stamped as finished
NewEntryFinished(id, label, prompt_id, t) ==
    [id |-> id, label |-> label, prompt_id |-> prompt_id,
     status |-> "running", result |-> NoneText, log |-> << >>,
     started_at |-> t, finished_at |-> SomeTime(t)]

\* history.py save_run, lines 20-29: the entry written for a new run
NewEntry(id, label, prompt_id, t) ==
    [id |-> id, label |-> label, prompt_id |-> prompt_id,
     status |-> "running", result |-> NoneText, log |-> << >>,
     started_at |-> t, finished_at |-> NoneTime]

\* fault model for SaveRun: the write is lost
SaveRunLost(st, id, label, prompt_id, t) == st

\* history.py save_run: the file <run_id>.json is written, others untouched
SaveRun(st, id, label, prompt_id, t) ==
    [i \in DOMAIN st \cup {id} |->
        IF i = id THEN NewEntry(id, label, prompt_id, t) ELSE st[i]]

\* history.py update_run, line 37: reading a file that is not there raises
UpdateRunRaises(st, id) == id \notin DOMAIN st

\* fault model for MergeEntry: result and log are assigned as passed
MergeEntryAssign(entry, status, result, lg, t) ==
    [entry EXCEPT !.status = status,
                  !.result = result,
                  !.log = lg.val,
                  !.finished_at = SomeTime(t)]

\* history.py update_run, lines 38-43: the merge of the supplied fields
MergeEntry(entry, status, result, lg, t) ==
    [entry EXCEPT !.status = status,
                  !.result = IF result.null THEN @ ELSE result,
                  !.log = IF lg.null THEN @ ELSE lg.val,
                  !.finished_at = SomeTime(t)]

\* fault model for UpdateRun: every entry of the directory is rewritten
UpdateRunAll(st, id, status, result, lg, t) ==
    IF id \notin DOMAIN st
    THEN st
    ELSE [i \in DOMAIN st |-> [st[i] EXCEPT !.status = status,
                                            !.finished_at = SomeTime(t)]]

\* history.py update_run: the entry is read, merged and written back
UpdateRun(st, id, status, result, lg, t) ==
    IF UpdateRunRaises(st, id)
    THEN st
    ELSE [st EXCEPT ![id] = MergeEntry(st[id], status, result, lg, t)]

\* the arguments of one update_run call
UpdateCall(id, status, result, lg) ==
    [id |-> id, status |-> status, result |-> result, log |-> lg]

\* history.py update_run, called at the time the clock shows next
CallUpdateRun(id, status, result, lg) ==
    LET t == ClockAfter(now) IN
    /\ now' = t
    /\ store' = UpdateRun(store, id, status, result, lg, t)
    /\ updateCalls' = Append(updateCalls, UpdateCall(id, status, result, lg))

Terminal == {"complete", "failed", "cancelled"}

\* ------------------------------------------------------------ prompts
NoParsed == [found |-> FALSE, mcp_query |-> NoneText, analysis_prompt |-> << >>]
Parsed(query, analysis) ==
    [found |-> TRUE, mcp_query |-> query, analysis_prompt |-> analysis]

\* the tokens str.strip() and \s take for white space
Whitespace == {" ", "\n", "\t"}
\* a test for the empty text only
IsEmptyText(text) == text = << >>
\* str.strip() leaves nothing: every token is white space
IsBlank(text) == \A i \in 1..Len(text) : text[i] \in Whitespace

\* str.replace(token, data): every occurrence of the token
RECURSIVE Replace(_, _, _)
Replace(text, token, data) ==
    IF text = << >> THEN << >>
    ELSE (IF Head(text) = token THEN data ELSE <<Head(text)>>)
         \o Replace(Tail(text), token, data)

\* prompts.py 188, 330: f"{{{{{key}}}}}", the placeholder of a variable
Placeholder(key) == "{{" \o key \o "}}"

\* prompts.py 187-188, 329-330: the variables are filled in one after the
\* other, in the order of the keyword arguments, each on the text the
\* one before it left; vs is a sequence of <<key, value>>
RECURSIVE Substitute(_, _)
Substitute(text, vs) ==
    IF vs = << >> THEN text
    ELSE Substitute(Replace(text, Placeholder(vs[1][1]), vs[1][2]), Tail(vs))

\* the lines of a prompt that begin with "## "
HeaderLines == {"## Tools", "## MCP Query", "## Analysis Prompt"}

Least(S) == CHOOSE x \in S : \A y \in S : x <= y
Greatest(S) == CHOOSE x \in S : \A y \in S : y <= x

\* "^## name\s*\n" matched at token i: the header is at the start of a
\* line and white space up to a line end follows it; the index after the
\* last such line end, 0 when there is no match at i
AfterHeader(text, i, name) ==
    IF text[i] = "## " \o name /\ (i = 1 \/ text[i - 1] = "\n")
    THEN LET run == {j \in (i + 1)..Len(text) :
                        \A k \in (i + 1)..j : text[k] \in Whitespace}
             ends == {j \in run : text[j] = "\n"} IN
         IF ends = {} THEN 0 ELSE Greatest(ends) + 1
    ELSE 0

\* re.search: the leftmost match of the header; 0 when there is none
SectionStart(text, name) ==
    LET hits == {i \in 1..Len(text) : AfterHeader(text, i, name) # 0} IN
    IF hits = {} THEN 0 ELSE AfterHeader(text, Least(hits), name)

\* "(.*?)(?=\n## |\Z)": the section stops before the first line end that
\* a "## " line follows, or at the end of the text
SectionEnd(text, s) ==
    LET stops == {p \in s..(Len(text) - 1) :
                     text[p] = "\n" /\ text[p + 1] \in HeaderLines} IN
    IF stops = {} THEN Len(text) ELSE Least(stops) - 1

\* str.strip(): the white space at both ends is dropped
Strip(text) ==
    LET keep == {i \in 1..Len(text) : text[i] \notin Whitespace} IN
    IF keep = {} THEN << >> ELSE SubSeq(text, Least(keep), Greatest(keep))

\* prompts.py 98-107 _extract_section: the stripped text of a section,
\* None when the header is not there
ExtractSection(text, name) ==
    LET s == SectionStart(text, name) IN
    IF s = 0 THEN NoneText
    ELSE SomeText(Strip(SubSeq(text, s, SectionEnd(text, s))))

\* prompts.py 194-199, 243-247: all that follows "## Analysis Prompt",
\* stripped; the whole text as it is when the header is not there
AnalysisPrompt(text) ==
    LET s == SectionStart(text, "Analysis Prompt") IN
    IF s = 0 THEN text ELSE Strip(SubSeq(text, s, Len(text)))

\* prompts.py 227-254 parse_content
ParseContent(text) ==
    Parsed(ExtractSection(text, "MCP Query"), AnalysisPrompt(text))

\* prompts.py 83-95 load_prompt: the body of the template file, None when
\* there is no file
LoadPrompt(tpl) ==
    CASE tpl = "llm-only" -> SomeText(<<"Explain the findings">>)
      [] tpl = "mac-risk" ->
           SomeText(<<"## MCP Query", "\n", "find ", "{{mac}}", "\n", "\n",
                      "## Analysis Prompt", "\n",
                      "Summarize: ", "{{result}}">>)
      [] OTHER -> NoneText

\* app.py 235-247: the values typed in for the variables of a template
VariablesOf(tpl) ==
    IF tpl = "mac-risk" THEN << <<"mac", <<"AA:BB">>>> >> ELSE << >>

\* prompts.py 168-206 parse_prompt: the template is loaded, its variables
\* are filled in, then its sections are taken apart (the custom block
\* parses the text build_prompt made of the same template, 322-332)
ParsePrompt(tpl) ==
    LET t == LoadPrompt(tpl) IN
    IF t.null THEN NoParsed
    ELSE ParseContent(Substitute(t.val, VariablesOf(tpl)))

\* the templates a run block can be started on: the editor of the custom
\* block always holds a text
TemplatesOf(m) ==
    CASE m = "freeform" -> {""}
      [] m = "prompt" -> Templates
      [] m = "custom" -> Templates \ {"missing"}

\* mcp_client.py 128: the field names tried first, in this order
Candidates == <<"query", "prompt", "question", "input", "text", "message">>

\* a field choice that ignores the preferred names
ParamNameFirstDeclared(props) ==
    IF props # << >> THEN props[1] ELSE "query"

\* mcp_client.py 123-139: the field of the tool that carries the question
ParamName(props) ==
    LET hits == {i \in 1..Len(Candidates) : Candidates[i] \in Range(props)} IN
    IF hits # {}
    THEN Candidates[CHOOSE i \in hits : \A j \in hits : i <= j]
    ELSE IF props # << >> THEN props[1] ELSE "query"

\* main.py 80-82: the text that stands for an empty answer
FetchedOrFallback(text) ==
    IF IsBlank(text) THEN <<"No data returned from Armis.">> ELSE text

\* main.py 87: the legacy placeholders, in the order they are replaced
Placeholders == <<"{{device_data}}", "{{data}}", "{{mcp_data}}", "{{result}}">>

\* main.py 86-90: the analysis prompt with the fetched text filled in
RECURSIVE FillFrom(_, _, _)
FillFrom(text, data, k) ==
    IF k > Len(Placeholders) THEN text
    ELSE FillFrom(Replace(text, Placeholders[k], data), data, k + 1)
FillData(text, data) == FillFrom(text, data, 1)

\* ------------------------------------------------------------ init
FreshCoroutine ==
    /\ exc = NoExc
    /\ ret = NoneText
    /\ nChat = 0
    /\ entered = FALSE
    /\ cm = "none"
    /\ session = "none"
    /\ tools = NoneList
    /\ nList = 0
    /\ inflight = << >>
    /\ callLog = << >>
    /\ settled = << >>
    /\ messages = << >>
    /\ iteration = 0
    /\ tool_calls = << >>
    /\ idx = 0
    /\ parsed = NoParsed
    /\ mcp_data = NoneText
    /\ sent = NoneText

\* no call_tool is under way
NoTask ==
    /\ task = "none"
    /\ ready = << >>
    /\ elapsed = 0

\* no text was handed to the parser
NoTemplate ==
    /\ body = << >>
    /\ variables = << >>
    /\ built = NoneText
    /\ declared = << >>

\* the history directory holds no damaged file and nothing was listed,
\* cleared or read for an update
NoListing == [done |-> FALSE, raised |-> "none", entries |-> << >>]
NoPending == [null |-> TRUE]
NoDirectory ==
    /\ damaged = EmptyStore
    /\ listing = NoListing
    /\ cleared = NoneTime
    /\ pending = NoPending

Init ==
    /\ appPc = "idle"
    /\ exitPath = "none"
    /\ escaped = "none"
    /\ run_id = NoRun
    /\ runs = 0
    /\ store = EmptyStore
    /\ updateCalls = << >>
    /\ now = 0
    /\ mode = "none"
    /\ template = ""
    /\ log = << >>
    /\ pc = "idle"
    /\ budget = MaxToolCalls
    /\ faults = 0
    /\ FreshCoroutine
    /\ NoTask
    /\ NoTemplate
    /\ NoDirectory

\* the locals of the coroutine and of its client are gone once it is over
DropCoroutine ==
    /\ nChat' = 0
    /\ entered' = FALSE
    /\ cm' = "none"
    /\ session' = "none"
    /\ tools' = NoneList
    /\ nList' = 0
    /\ inflight' = << >>
    /\ callLog' = << >>
    /\ settled' = << >>
    /\ messages' = << >>
    /\ iteration' = 0
    /\ tool_calls' = << >>
    /\ idx' = 0
    /\ parsed' = NoParsed
    /\ mcp_data' = NoneText
    /\ sent' = NoneText

\* ------------------------------------------------------------ app.py
\* app.py 204-205, 318-320: save_run writes the running entry of the run
StartRun(label, prompt_id) ==
    LET t == ClockAfter(now)
        id == NewRunId(t, runs + 1) IN
    /\ now' = t
    /\ store' = SaveRun(store, id, label, prompt_id, t)
    /\ run_id' = id

\* app.py 190-209, 303-333: the Run button of a run block; the running
\* entry is written, then run_async starts the coroutine of the block
AppRun ==
    /\ appPc \in {"idle", "ended", "killed"}
    /\ runs < Len(UuidValues)
    /\ runs' = runs + 1
    /\ \E m \in Modes :
       \E tpl \in TemplatesOf(m) :
         /\ mode' = m
         /\ template' = tpl
         /\ IF m = "freeform"
            THEN StartRun("Free-form Query", NoPromptId)
            ELSE StartRun(tpl, SomePromptId(tpl))
         /\ pc' = IF m = "freeform" THEN "ff_begin" ELSE "pa_begin"
    /\ appPc' = "try"
    /\ exitPath' = "none"
    /\ escaped' = "none"
    /\ log' = << >>
    /\ exc' = NoExc
    /\ ret' = NoneText
    /\ DropCoroutine
    /\ UNCHANGED <<updateCalls, envVars, isoVars>>

\* the tail of every branch of the run block: update_run is called with
\* the final status, result and log; when it raises, its exception leaves
\* the block instead of `after`
FinishRun(status, result, lg, after) ==
    /\ CallUpdateRun(run_id, status, result, SomeList(lg))
    /\ log' = lg
    /\ escaped' = IF UpdateRunRaises(store, run_id)
                  THEN "FileNotFoundError" ELSE after
    /\ exitPath' = status
    /\ appPc' = "ended"
    /\ pc' = "idle"
    /\ DropCoroutine
    /\ UNCHANGED <<run_id, runs, inVars, isoVars, exc, ret, envVars>>

\* app.py 218-228, 342-352: run_async returned; the run is complete and
\* st.rerun() ends the script run
AppElse ==
    /\ appPc = "try"
    /\ pc = "out"
    /\ exc.kind = "none"
    /\ FinishRun("complete", ret, log, "RerunException")

\* fault model for AppExceptException: the exception leaves the block
\* and nothing is written
AppExceptionEscapes ==
    /\ appPc = "try"
    /\ pc = "out"
    /\ exc.kind = "Exception"
    /\ appPc' = "ended"
    /\ exitPath' = "failed"
    /\ escaped' = "Exception"
    /\ pc' = "idle"
    /\ DropCoroutine
    /\ UNCHANGED <<run_id, runs, store, updateCalls, now, inVars, isoVars, log, exc,
                   ret, envVars>>

\* app.py 210-213, 334-337: an ordinary exception left run_async
AppExceptException ==
    /\ appPc = "try"
    /\ pc = "out"
    /\ exc.kind = "Exception"
    /\ FinishRun("failed", SomeText(<<"**Run failed:** ">> \o exc.msg),
                 Append(log, <<"[ERROR] ">> \o exc.msg), "RerunException")

\* fault model for AppExceptBaseException: the interruption is re-raised
\* and nothing is written
AppInterruptionEscapes ==
    /\ appPc = "try"
    /\ pc = "out"
    /\ exc.kind = "BaseException"
    /\ appPc' = "ended"
    /\ exitPath' = "cancelled"
    /\ escaped' = "BaseException"
    /\ pc' = "idle"
    /\ DropCoroutine
    /\ UNCHANGED <<run_id, runs, store, updateCalls, now, inVars, isoVars, log, exc,
                   ret, envVars>>

\* app.py 214-217, 338-341: any other exception left run_async; it is
\* re-raised after the entry was updated
AppExceptBaseException ==
    /\ appPc = "try"
    /\ pc = "out"
    /\ exc.kind = "BaseException"
    /\ FinishRun("cancelled", SomeText(<<"**Run cancelled** - interrupted.">>),
                 Append(log, <<"[CANCELLED] Run interrupted">>),
                 "BaseException")

\* the process is stopped while the run is in progress: no handler runs,
\* what the process held in memory is lost
AppKilled ==
    /\ appPc = "try"
    /\ appPc' = "killed"
    /\ exitPath' = "killed"
    /\ pc' = "idle"
    /\ log' = << >>
    /\ exc' = NoExc
    /\ ret' = NoneText
    /\ DropCoroutine
    /\ UNCHANGED <<escaped, run_id, runs, store, updateCalls, now, inVars, isoVars,
                   envVars>>

\* ------------------------------------------------------------ session
\* an exception leaves the coroutine: through __aexit__ when the client
\* was entered (async with), straight out otherwise
Propagate(e) ==
    /\ exc' = e
    /\ pc' = IF entered THEN "aexit" ELSE "out"

\* mcp_client.py 33-42: the transport is opened
AEnterConnect ==
    /\ pc = "aenter_cm"
    /\ log' = OnStatus(log, <<"[MCP] Connecting to Armis MCP server...">>)
    /\ cm' = "open"
    /\ pc' = "aenter_sess"
    /\ UNCHANGED <<appVars, inVars, isoVars, exc, ret, nChat, entered, session, tools,
                   nList, callVars, loopVars, paVars, envVars>>

\* mcp_client.py 33-42: the transport cannot be opened
AEnterConnectFails ==
    /\ pc = "aenter_cm"
    /\ log' = OnStatus(log, <<"[MCP] Connecting to Armis MCP server...">>)
    /\ Propagate(Exc("Exception", ConnectError))
    /\ UNCHANGED <<appVars, inVars, isoVars, ret, nChat, clientVars, callVars,
                   loopVars, paVars, envVars>>

\* mcp_client.py 43-45: the protocol session is opened and initialized
AEnterSession ==
    /\ pc = "aenter_sess"
    /\ session' = "open"
    /\ pc' = "aenter_list"
    /\ UNCHANGED <<appVars, inVars, isoVars, log, exc, ret, nChat, entered, cm, tools,
                   nList, callVars, loopVars, paVars, envVars>>

\* mcp_client.py 43-45: initialize() fails on the opened session
AEnterInitializeFails ==
    /\ pc = "aenter_sess"
    /\ session' = "open"
    /\ Propagate(Exc("Exception", ConnectError))
    /\ UNCHANGED <<appVars, inVars, isoVars, log, ret, nChat, entered, cm, tools,
                   nList, callVars, loopVars, paVars, envVars>>

\* list_tools that takes an empty cached list for no cache
ListToolsRefetchEmpty(answer) ==
    IF tools.null \/ tools.val = << >>
    THEN /\ tools' = SomeList(answer)
         /\ nList' = nList + 1
    ELSE UNCHANGED <<tools, nList>>

\* mcp_client.py 61-66: list_tools asks the server only when nothing is
\* cached; `answer` is what the server would list
ListTools(answer) ==
    IF tools.null
    THEN /\ tools' = SomeList(answer)
         /\ nList' = nList + 1
    ELSE UNCHANGED <<tools, nList>>

Names(l) == [i \in 1..Len(l) |-> l[i].name]

\* mcp_client.py 47-53: the first listing; __aenter__ returns
AEnterList ==
    /\ pc = "aenter_list"
    /\ \E answer \in ToolLists : ListTools(answer)
    /\ log' = OnStatus(log, <<"[MCP] Connected.">> \o Names(tools'.val))
    /\ entered' = TRUE
    /\ pc' = IF mode = "freeform" THEN "ff_body" ELSE "pa_query"
    /\ UNCHANGED <<appVars, inVars, isoVars, exc, ret, nChat, cm, session, callVars,
                   loopVars, paVars, envVars>>

\* mcp_client.py 48, 64: the first listing fails
AEnterListFails ==
    /\ pc = "aenter_list"
    /\ tools.null
    /\ nList' = nList + 1
    /\ Propagate(Exc("Exception", ConnectError))
    /\ UNCHANGED <<appVars, inVars, isoVars, log, ret, nChat, entered, cm, session,
                   tools, callVars, loopVars, paVars, envVars>>

\* mcp_client.py 55-59: the session, then the transport, are closed
AExit ==
    /\ pc = "aexit"
    /\ session' = IF session = "open" THEN "closed" ELSE session
    /\ cm' = IF cm = "open" THEN "closed" ELSE cm
    /\ pc' = "out"
    /\ UNCHANGED <<appVars, inVars, isoVars, log, exc, ret, nChat, entered, tools,
                   nList, callVars, loopVars, paVars, envVars>>

\* mcp_client.py 73-77: the call is sent on the session
Send(call) ==
    /\ inflight' = Append(inflight, call)
    /\ callLog' = Append(callLog, call)
    /\ UNCHANGED settled

\* mcp_client.py 75-86, 99: the server answers the call in flight
Settle(ok, text) ==
    /\ settled' = Append(settled, [call |-> Head(inflight), ok |-> ok,
                                   text |-> text])
    /\ inflight' = Tail(inflight)
    /\ UNCHANGED callLog

\* ------------------------------------------------------------ agent loop
\* main.py 167-175: run_freeform_query up to the async with
FfBegin ==
    /\ pc = "ff_begin"
    /\ log' = OnStatus(log, <<"[QUERY] Free-form question mode">>)
    /\ pc' = "aenter_cm"
    /\ UNCHANGED <<appVars, inVars, isoVars, exc, ret, nChat, clientVars, callVars,
                   loopVars, paVars, envVars>>

\* main.py 178-181, llm.py 46-54: query_with_tools is entered, the tool
\* schemas are taken from the session and the conversation is set up
QwtBegin ==
    /\ pc = "ff_body"
    /\ log' = OnStatus(log, <<"[LLM] Starting tool-calling loop...">>)
    /\ \E answer \in ToolLists : ListTools(answer)
    /\ messages' = <<Message("system", SomeText(SystemPrompt), << >>),
                     Message("user", SomeText(Question), << >>)>>
    /\ iteration' = 0
    /\ pc' = "qwt_iter"
    /\ UNCHANGED <<appVars, inVars, isoVars, exc, ret, nChat, entered, cm, session,
                   callVars, tool_calls, idx, paVars, envVars>>

\* fault model for LoopRuns: the bound is taken inclusive
LoopRunsInclusive(i) == i <= MAX_TOOL_ITERATIONS

\* llm.py 56: the for loop has an iteration left
LoopRuns(i) == i < MAX_TOOL_ITERATIONS

\* llm.py 69: `not tool_calls`
NoToolCalls(calls) == calls = << >>

\* llm.py 59-63: the calls of a reply name tools passed as `tools`
Offered(calls, offered) ==
    \A i \in 1..Len(calls) :
        \E j \in 1..Len(offered) : calls[i].name = offered[j].name

\* llm.py 56-72: one backend turn.  The reply is appended; without tool
\* calls its content is returned, otherwise its calls are served
QwtChat ==
    /\ pc = "qwt_iter"
    /\ LoopRuns(iteration)
    /\ nChat' = nChat + 1
    /\ \E calls \in ToolCallLists :
       \E content \in (IF calls = << >> THEN FinalContents
                       ELSE ToolTurnContents) :
         LET reply == Message("assistant", content, calls) IN
         /\ Offered(calls, tools.val)
         /\ Len(calls) <= budget
         /\ budget' = budget - Len(calls)
         /\ messages' = Append(messages, reply)
         /\ IF NoToolCalls(reply.tool_calls)
            THEN /\ ret' = SomeText(GetContent(reply))
                 /\ log' = OnStatus(log, <<"[LLM] Iteration">>)
                 /\ pc' = "ff_after"
                 /\ UNCHANGED <<tool_calls, idx>>
            ELSE /\ log' = OnStatus(OnStatus(log, <<"[LLM] Iteration">>),
                                    <<"[LLM] Executing tool call(s)...">>)
                 /\ tool_calls' = reply.tool_calls
                 /\ idx' = 1
                 /\ pc' = "qwt_call"
                 /\ UNCHANGED ret
    /\ UNCHANGED <<appVars, inVars, isoVars, exc, clientVars, callVars, iteration,
                   paVars, faults>>

\* llm.py 59-63: the chat backend raises
QwtChatFails ==
    /\ pc = "qwt_iter"
    /\ LoopRuns(iteration)
    /\ nChat' = nChat + 1
    /\ log' = OnStatus(log, <<"[LLM] Iteration">>)
    /\ Propagate(Exc("Exception", ChatError))
    /\ UNCHANGED <<appVars, inVars, isoVars, ret, clientVars, callVars, loopVars,
                   paVars, envVars>>

\* fault model for CurrentCall: the calls are taken last first
CurrentCallReversed(calls, i) == calls[Len(calls) + 1 - i]

\* llm.py 74: the for loop takes the calls in the order of the list
CurrentCall(calls, i) == calls[i]

\* llm.py 74-82: the next call of the turn is sent
QwtCall ==
    /\ pc = "qwt_call"
    /\ LET call == CurrentCall(tool_calls, idx) IN
         /\ log' = OnStatus(log, <<"Calling: ", call.name>>)
         /\ Send(call)
    /\ pc' = "qwt_await"
    /\ UNCHANGED <<appVars, inVars, isoVars, exc, ret, nChat, clientVars, loopVars,
                   paVars, envVars>>

\* llm.py 86: the text that stands for a failed call
ErrorText(e) == <<"Error calling tool: ">> \o e

\* fault model for AfterCall: the result of the call is not appended
AfterCallNoMessage(result) ==
    /\ messages' = messages
    /\ IF idx < Len(tool_calls)
       THEN /\ idx' = idx + 1
            /\ pc' = "qwt_call"
            /\ UNCHANGED iteration
       ELSE /\ idx' = 0
            /\ iteration' = iteration + 1
            /\ pc' = "qwt_iter"
    /\ UNCHANGED <<appVars, inVars, isoVars, exc, ret, nChat, clientVars, tool_calls,
                   paVars, budget>>

\* llm.py 89-92 and the two for loops: the tool message is appended, then
\* the next call of the turn or the next turn follows
AfterCall(result) ==
    /\ messages' = Append(messages, Message("tool", SomeText(result), << >>))
    /\ IF idx < Len(tool_calls)
       THEN /\ idx' = idx + 1
            /\ pc' = "qwt_call"
            /\ UNCHANGED iteration
       ELSE /\ idx' = 0
            /\ iteration' = iteration + 1
            /\ pc' = "qwt_iter"
    /\ UNCHANGED <<appVars, inVars, isoVars, exc, ret, nChat, clientVars, tool_calls,
                   paVars, budget>>

\* llm.py 82-84, mcp_client.py 78-86: the call returns its text
QwtToolReturns ==
    /\ pc = "qwt_await"
    /\ \E text \in ToolTexts :
         /\ Settle(TRUE, text)
         /\ log' = OnStatus(log, <<"Result">> \o text)
         /\ AfterCall(text)
    /\ UNCHANGED faults

\* fault model for QwtToolFails: the exception of the call is not caught
QwtToolFailsUncaught ==
    /\ pc = "qwt_await"
    /\ faults < MaxToolFailures
    /\ faults' = faults + 1
    /\ \E e \in ToolErrors :
         /\ Settle(FALSE, e)
         /\ Propagate(Exc("Exception", e))
    /\ UNCHANGED <<appVars, inVars, isoVars, log, ret, nChat, clientVars, loopVars,
                   paVars, budget>>

\* llm.py 85-87: the call raises an ordinary exception, which is caught
QwtToolFails ==
    /\ pc = "qwt_await"
    /\ faults < MaxToolFailures
    /\ faults' = faults + 1
    /\ \E e \in ToolErrors :
         /\ Settle(FALSE, e)
         /\ log' = OnStatus(log, <<"Error: ">> \o e)
         /\ AfterCall(ErrorText(e))

\* llm.py 94-95: the for loop is exhausted
QwtMax ==
    /\ pc = "qwt_iter"
    /\ ~LoopRuns(iteration)
    /\ log' = OnStatus(log, <<"[LLM] Max iterations reached.">>)
    /\ ret' = SomeText(IF messages = << >> THEN << >>
                       ELSE GetContent(Last(messages)))
    /\ pc' = "ff_after"
    /\ UNCHANGED <<appVars, inVars, isoVars, exc, nChat, clientVars, callVars,
                   loopVars, paVars, envVars>>

\* main.py 183-187: the result is reported and returned
FfAfter ==
    /\ pc = "ff_after"
    /\ log' = OnStatus(OnStatus(log, <<"[RESULT] Query complete">>),
                       <<"\n">> \o ret.val)
    /\ pc' = "aexit"
    /\ UNCHANGED <<appVars, inVars, isoVars, exc, ret, nChat, clientVars, callVars,
                   loopVars, paVars, envVars>>

\* ------------------------------------------------------------ analysis
\* llm.py 9-25: analyze_data returns the content of the reply
AnalyzeData(user_prompt, content) ==
    /\ sent' = SomeText(user_prompt)
    /\ nChat' = nChat + 1
    /\ ret' = SomeText(GetContent(Message("assistant", content, << >>)))

\* llm.py 20-23: the chat backend raises under analyze_data
AnalyzeDataFails(user_prompt) ==
    /\ sent' = SomeText(user_prompt)
    /\ nChat' = nChat + 1
    /\ Propagate(Exc("Exception", ChatError))

\* main.py 38, 115: the first status line of the coroutine
BeginLine(m) ==
    IF m = "prompt" THEN <<"[ANALYSIS] Starting analysis with prompt">>
    ELSE <<"[ANALYSIS] Running custom/edited prompt">>

\* fault model for PaBegin: a template without a query opens a session
\* all the same
PaBeginAlwaysConnects ==
    /\ pc = "pa_begin"
    /\ LET p == ParsePrompt(template)
           l == OnStatus(log, BeginLine(mode)) IN
         /\ parsed' = p
         /\ IF ~p.found
            THEN /\ log' = OnStatus(l, <<"[ERROR] Prompt not found">>)
                 /\ ret' = SomeText(<<"Error: Prompt '", template,
                                      "' not found">>)
                 /\ pc' = "out"
            ELSE /\ log' = OnStatus(l, <<"[PROMPT] MCP Query extracted">>)
                 /\ pc' = "aenter_cm"
                 /\ UNCHANGED ret
    /\ UNCHANGED <<appVars, inVars, isoVars, exc, nChat, clientVars, callVars,
                   loopVars, mcp_data, sent, envVars>>

\* main.py 35-73, 112-129: the template is parsed; a missing template is
\* answered with an error text, a template with a query opens a session
PaBegin ==
    /\ pc = "pa_begin"
    /\ LET p == ParsePrompt(template)
           l == OnStatus(log, BeginLine(mode)) IN
         /\ parsed' = p
         /\ IF ~p.found
            THEN /\ log' = OnStatus(l, <<"[ERROR] Prompt not found">>)
                 /\ ret' = SomeText(<<"Error: Prompt '", template,
                                      "' not found">>)
                 /\ pc' = "out"
            ELSE IF p.mcp_query.null
            THEN /\ log' = l
                 /\ pc' = "pa_llm_only"
                 /\ UNCHANGED ret
            ELSE /\ log' = OnStatus(l, <<"[PROMPT] MCP Query extracted">>)
                 /\ pc' = "aenter_cm"
                 /\ UNCHANGED ret
    /\ UNCHANGED <<appVars, inVars, isoVars, exc, nChat, clientVars, callVars,
                   loopVars, mcp_data, sent, envVars>>

\* main.py 53-71, 121-127: no query, the analysis prompt goes to the LLM
PaLlmOnly ==
    /\ pc = "pa_llm_only"
    /\ \E content \in FinalContents :
         AnalyzeData(parsed.analysis_prompt, content)
    /\ log' = OnStatus(OnStatus(log, <<"[PROMPT] LLM-only mode (no MCP query)">>),
                       <<"[RESULT] Analysis complete">>)
    /\ pc' = "out"
    /\ UNCHANGED <<appVars, inVars, isoVars, exc, clientVars, callVars, loopVars,
                   parsed, mcp_data, envVars>>

\* main.py 65, 125: the chat backend raises
PaLlmOnlyFails ==
    /\ pc = "pa_llm_only"
    /\ AnalyzeDataFails(parsed.analysis_prompt)
    /\ log' = OnStatus(log, <<"[PROMPT] LLM-only mode (no MCP query)">>)
    /\ UNCHANGED <<appVars, inVars, isoVars, ret, clientVars, callVars, loopVars,
                   parsed, mcp_data, envVars>>

\* mcp_client.py 107-151: query sends the text to the first tool
PaQuery ==
    /\ pc = "pa_query"
    /\ \E answer \in ToolLists : ListTools(answer)
    /\ tools'.val # << >>
    /\ LET tool == tools'.val[1]
           call == ToolCall(tool.name,
                            << <<ParamName(tool.props), parsed.mcp_query.val>> >>)
       IN Send(call)
    /\ log' = OnStatus(log, <<"[MCP] Sending query to Armis...">>)
    /\ pc' = "pa_await"
    /\ UNCHANGED <<appVars, inVars, isoVars, exc, ret, nChat, entered, cm, session,
                   loopVars, paVars, envVars>>

\* mcp_client.py 114-116: query on a session without tools
PaQueryNoTools ==
    /\ pc = "pa_query"
    /\ \E answer \in ToolLists : ListTools(answer)
    /\ tools'.val = << >>
    /\ Propagate(Exc("Exception", <<"No tools available on MCP server">>))
    /\ UNCHANGED <<appVars, inVars, isoVars, log, ret, nChat, entered, cm, session,
                   callVars, loopVars, paVars, envVars>>

\* mcp_client.py 151-166, main.py 78-82: the answer, or the fallback text
\* when the answer is blank
PaQueryReturns ==
    /\ pc = "pa_await"
    /\ \E text \in QueryTexts :
         /\ Settle(TRUE, text)
         /\ mcp_data' = SomeText(FetchedOrFallback(text))
         /\ log' = IF IsBlank(text)
                   THEN OnStatus(OnStatus(log, <<"[MCP] Response received">>),
                                 <<"[WARNING] MCP returned empty response">>)
                   ELSE OnStatus(log, <<"[MCP] Response received">>)
    /\ pc' = "pa_analyze"
    /\ UNCHANGED <<appVars, inVars, isoVars, exc, ret, nChat, clientVars, loopVars,
                   parsed, sent, envVars>>

\* mcp_client.py 151, main.py 78: the call raises; nothing catches it
PaQueryFails ==
    /\ pc = "pa_await"
    /\ \E e \in ToolErrors :
         /\ Settle(FALSE, e)
         /\ Propagate(Exc("Exception", e))
    /\ UNCHANGED <<appVars, inVars, isoVars, log, ret, nChat, clientVars, loopVars,
                   paVars, envVars>>

\* main.py 84-107, 138-148: the fetched text is filled in and analysed
PaAnalyze ==
    /\ pc = "pa_analyze"
    /\ \E content \in FinalContents :
         AnalyzeData(FillData(parsed.analysis_prompt, mcp_data.val), content)
    /\ log' = OnStatus(OnStatus(log, <<"[LLM] Sending data to LLM for analysis...">>),
                       <<"[RESULT] Analysis complete">>)
    /\ pc' = "aexit"
    /\ UNCHANGED <<appVars, inVars, isoVars, exc, clientVars, callVars, loopVars,
                   parsed, mcp_data, envVars>>

\* main.py 101, 146: the chat backend raises
PaAnalyzeFails ==
    /\ pc = "pa_analyze"
    /\ AnalyzeDataFails(FillData(parsed.analysis_prompt, mcp_data.val))
    /\ log' = OnStatus(log, <<"[LLM] Sending data to LLM for analysis...">>)
    /\ UNCHANGED <<appVars, inVars, isoVars, ret, clientVars, callVars, loopVars,
                   parsed, mcp_data, envVars>>

\* ------------------------------------------------------------ interruption
\* the line of the on_status call a step begins with
FirstStatus(p) ==
    CASE p = "ff_begin" -> <<"[QUERY] Free-form question mode">>
      [] p = "pa_begin" -> BeginLine(mode)
      [] p = "pa_llm_only" -> <<"[PROMPT] LLM-only mode (no MCP query)">>
      [] p = "pa_analyze" -> <<"[LLM] Sending data to LLM for analysis...">>
      [] p = "aenter_cm" -> <<"[MCP] Connecting to Armis MCP server...">>
      [] p = "ff_body" -> <<"[LLM] Starting tool-calling loop...">>
      [] p = "qwt_iter" -> IF LoopRuns(iteration) THEN <<"[LLM] Iteration">>
                           ELSE <<"[LLM] Max iterations reached.">>
      [] p = "qwt_call" -> <<"Calling: ", CurrentCall(tool_calls, idx).name>>
      [] p = "ff_after" -> <<"[RESULT] Query complete">>

\* app.py 197-202, 311-316: the display call of on_status raises a
\* script-control exception (no Exception) after the line was appended
StatusInterrupted ==
    /\ appPc = "try"
    /\ pc \in {"ff_begin", "pa_begin", "pa_llm_only", "pa_analyze",
               "aenter_cm", "ff_body", "qwt_iter", "qwt_call", "ff_after"}
    /\ log' = OnStatus(log, FirstStatus(pc))
    /\ Propagate(Exc("BaseException", <<"interrupted">>))
    /\ UNCHANGED <<appVars, inVars, isoVars, ret, nChat, clientVars, callVars,
                   loopVars, paVars, envVars>>

\* mcp_client.py 99: the await of the call in flight is cancelled
CallInterrupted ==
    /\ appPc = "try"
    /\ pc \in {"qwt_await", "pa_await"}
    /\ inflight' = << >>
    /\ Propagate(Exc("BaseException", <<"interrupted">>))
    /\ UNCHANGED <<appVars, inVars, isoVars, log, ret, nChat, clientVars, callLog,
                   settled, loopVars, paVars, envVars>>

\* llm.py 84, 87: the call has settled and the display call of the status
\* line about it raises; no tool message is appended
SettledInterrupted ==
    /\ appPc = "try"
    /\ pc = "qwt_await"
    /\ \/ /\ \E text \in ToolTexts :
               /\ Settle(TRUE, text)
               /\ log' = OnStatus(log, <<"Result">> \o text)
          /\ UNCHANGED faults
       \/ /\ faults < MaxToolFailures
          /\ faults' = faults + 1
          /\ \E e \in ToolErrors :
               /\ Settle(FALSE, e)
               /\ log' = OnStatus(log, <<"Error: ">> \o e)
    /\ Propagate(Exc("BaseException", <<"interrupted">>))
    /\ UNCHANGED <<appVars, inVars, isoVars, ret, nChat, clientVars, loopVars,
                   paVars, budget>>

\* ------------------------------------------------------------ behaviours
Next ==
    \/ AppRun
    \/ AppElse
    \/ AppExceptException
    \/ AppExceptBaseException
    \/ AppKilled
    \/ AEnterConnect
    \/ AEnterConnectFails
    \/ AEnterSession
    \/ AEnterInitializeFails
    \/ AEnterList
    \/ AEnterListFails
    \/ AExit
    \/ FfBegin
    \/ QwtBegin
    \/ QwtChat
    \/ QwtChatFails
    \/ QwtCall
    \/ QwtToolReturns
    \/ QwtToolFails
    \/ QwtMax
    \/ FfAfter
    \/ PaBegin
    \/ PaLlmOnly
    \/ PaLlmOnlyFails
    \/ PaQuery
    \/ PaQueryNoTools
    \/ PaQueryReturns
    \/ PaQueryFails
    \/ PaAnalyze
    \/ PaAnalyzeFails
    \/ StatusInterrupted
    \/ CallInterrupted
    \/ SettledInterrupted

Spec == Init /\ [][Next]_vars

\* ------------------------------------------------------------ run store alone
\* history.py called directly, as any caller of the module may: entries
\* are created and updated with any choice of the optional arguments
StoreLabels == {"Free-form Query", "mac-risk"}
StoreResults == {NoneText, SomeText(<<"r">>)}
StoreLogs == {NoneList, SomeList(<< <<"line">> >>)}

\* history.py 15-31: save_run(label, prompt_id)
StoreSaveRun ==
    /\ runs < Len(UuidValues)
    /\ runs' = runs + 1
    /\ \E label \in StoreLabels :
         StartRun(label, IF label = "mac-risk" THEN SomePromptId(label)
                         ELSE NoPromptId)
    /\ UNCHANGED <<appPc, exitPath, escaped, updateCalls, inVars, isoVars, log, pc,
                   exc, ret, nChat, clientVars, callVars, loopVars, paVars,
                   envVars>>

\* history.py 34-44: update_run(run_id, status, result, log) on an id that
\* has a file, or on one that has none
StoreUpdateRun ==
    /\ Len(updateCalls) < MaxUpdates
    /\ \E id \in DOMAIN store \cup {NoRun} :
       \E status \in Terminal :
       \E result \in StoreResults :
       \E lg \in StoreLogs :
         /\ CallUpdateRun(id, status, result, lg)
         /\ escaped' = IF UpdateRunRaises(store, id)
                       THEN "FileNotFoundError" ELSE "none"
    /\ UNCHANGED <<appPc, exitPath, run_id, runs, inVars, isoVars, log, pc, exc, ret,
                   nChat, clientVars, callVars, loopVars, paVars, envVars>>

StoreNext ==
    \/ StoreSaveRun
    \/ StoreUpdateRun

SpecStore == Init /\ [][StoreNext]_vars

\* ------------------------------------------------------------ heartbeat
\* call_tool taken alone, with the tasks of the event loop.  A task runs
\* from one await to the next; a future that completes makes the task
\* waiting for it ready, and the loop resumes the ready tasks first come
\* first served.  The heartbeat's timer and the answer of the server are
\* the environment.
HbIdle == <<appVars, inVars, body, variables, built, dirVars, declared,
            nChat, clientVars, loopVars,
            paVars, faults>>

\* mcp_client.py 73-77, 97-99: call_tool; the heartbeat task is created,
\* the call is sent and the caller waits for the answer
HbCallTool ==
    /\ pc = "idle"
    /\ Len(callLog) < MaxHbCalls
    /\ \E call \in {CallLookup, CallSearch} : Send(call)
    /\ task' = "created"
    /\ ready' = <<"heartbeat">>
    /\ elapsed' = 0
    /\ pc' = "await_coro"
    /\ exc' = NoExc
    /\ ret' = NoneText
    /\ UNCHANGED <<HbIdle, log, budget>>

\* mcp_client.py 90-93: the heartbeat task runs up to its first sleep
HbTaskStarts ==
    /\ ready # << >>
    /\ Head(ready) = "heartbeat"
    /\ task = "created"
    /\ task' = "sleeping"
    /\ ready' = Tail(ready)
    /\ UNCHANGED <<HbIdle, pc, exc, ret, log, callVars, elapsed, budget>>

\* mcp_client.py 93: the interval is over, the sleep completes
HbTimerFires ==
    /\ task = "sleeping"
    /\ elapsed < MaxBeats
    /\ task' = "woken"
    /\ ready' = Append(ready, "heartbeat")
    /\ UNCHANGED <<HbIdle, pc, exc, ret, log, callVars, elapsed, budget>>

\* mcp_client.py 93-95: the heartbeat task is resumed after its sleep,
\* reports and sleeps again
HbBeat ==
    /\ ready # << >>
    /\ Head(ready) = "heartbeat"
    /\ task = "woken"
    /\ elapsed' = elapsed + 1
    /\ log' = OnStatus(log, <<"Still waiting...">>)
    /\ task' = "sleeping"
    /\ ready' = Tail(ready)
    /\ UNCHANGED <<HbIdle, pc, exc, ret, callVars, budget>>

\* mcp_client.py 76, 99: the server answers or fails the call; the future
\* the caller waits for completes
HbCallResolves ==
    /\ pc = "await_coro"
    /\ inflight # << >>
    /\ \/ \E text \in ToolTexts : Settle(TRUE, text)
       \/ \E e \in ToolErrors : Settle(FALSE, e)
    /\ ready' = Append(ready, "main")
    /\ UNCHANGED <<HbIdle, pc, exc, ret, log, task, elapsed, budget>>

\* mcp_client.py 99-103: the caller is resumed with the answer; in the
\* finally block it cancels the heartbeat task and waits for it.  A task
\* that sleeps is made ready by the cancellation, a task that is ready
\* already is marked to be cancelled when it is resumed
HbFinally ==
    /\ ready # << >>
    /\ Head(ready) = "main"
    /\ pc = "await_coro"
    /\ task # "failed"
    /\ task' = "cancelling"
    /\ ready' = IF task = "sleeping" THEN Append(Tail(ready), "heartbeat")
                ELSE Tail(ready)
    /\ pc' = "await_task"
    /\ UNCHANGED <<HbIdle, exc, ret, log, callVars, elapsed, budget>>

\* mcp_client.py 93: the heartbeat task is resumed with CancelledError and
\* ends; the caller that waits for it becomes ready
HbCancelled ==
    /\ ready # << >>
    /\ Head(ready) = "heartbeat"
    /\ task = "cancelling"
    /\ task' = "cancelled"
    /\ ready' = Append(Tail(ready), "main")
    /\ UNCHANGED <<HbIdle, pc, exc, ret, log, callVars, elapsed, budget>>

\* mcp_client.py 78-86, 103-105: the CancelledError of the task is
\* swallowed; call_tool returns the text of the answer or raises
HbReturn ==
    /\ ready # << >>
    /\ Head(ready) = "main"
    /\ pc = "await_task"
    /\ ready' = Tail(ready)
    /\ LET answer == Last(settled) IN
         /\ ret' = IF answer.ok THEN SomeText(answer.text) ELSE NoneText
         /\ exc' = IF answer.ok THEN NoExc ELSE Exc("Exception", answer.text)
    /\ pc' = "idle"
    /\ UNCHANGED <<HbIdle, log, callVars, task, elapsed, budget>>

HeartbeatNext ==
    \/ HbCallTool
    \/ HbTaskStarts
    \/ HbTimerFires
    \/ HbBeat
    \/ HbCallResolves
    \/ HbFinally
    \/ HbCancelled
    \/ HbReturn

SpecHeartbeat == Init /\ [][HeartbeatNext]_vars

\* ------------------------------------------------------------ query alone
\* ArmisMCPClient.query taken alone, on sessions whose first tool declares
\* its fields in every order
FieldNames == {"foo", "message", "prompt", "question"}

\* the inputSchema properties of the first tool: none, one, two fields
FieldLists ==
    {<< >>} \cup {<<a>> : a \in FieldNames}
            \cup {f \in {<<a, b>> : a \in FieldNames, b \in FieldNames} :
                      f[1] # f[2]}

\* the tool lists of these sessions; the first tool is never the only one
QueryToolLists ==
    {<< >>} \cup {<<Tool("ask", f), Tool("search", <<"query">>)>> :
                     f \in FieldLists}

\* main.py 76, mcp_client.py 32-53: a prompt run has parsed the template
\* "mac-risk" and entered the client; the server listed `answer`
QyEnter ==
    /\ pc = "idle"
    /\ \E answer \in QueryToolLists :
         /\ tools' = SomeList(answer)
         /\ log' = OnStatus(OnStatus(log,
                       <<"[MCP] Connecting to Armis MCP server...">>),
                       <<"[MCP] Connected.">> \o Names(answer))
    /\ nList' = nList + 1
    /\ cm' = "open"
    /\ session' = "open"
    /\ entered' = TRUE
    /\ parsed' = ParsePrompt("mac-risk")
    /\ pc' = "pa_query"
    /\ UNCHANGED <<appVars, inVars, isoVars, exc, ret, nChat, callVars,
                   loopVars, mcp_data, sent, envVars>>

QueryNext ==
    \/ QyEnter
    \/ PaQuery
    \/ PaQueryNoTools
    \/ PaQueryReturns
    \/ PaQueryFails
    \/ PaAnalyze
    \/ PaAnalyzeFails
    \/ AExit

SpecQuery == Init /\ [][QueryNext]_vars

\* ------------------------------------------------------------ parser alone
\* prompts.py and the fill step of main.py taken alone, on every short
\* template body and on the template "mac-risk"
BodyTokens ==
    {"## MCP Query", "## Analysis Prompt", "\n", "{{a}}", "{{b}}", "{{data}}"}

\* the token sequences of length n
RECURSIVE TextsOfLen(_)
TextsOfLen(n) ==
    IF n = 0 THEN {<< >>}
    ELSE {Append(t, x) : t \in TextsOfLen(n - 1), x \in BodyTokens}

\* the template bodies load_prompt may give
Bodies ==
    UNION {TextsOfLen(n) : n \in 0..MaxBodyLen}
        \cup {LoadPrompt("mac-risk").val, LoadPrompt("llm-only").val}

\* the values a variable may be given: a plain text, a text that reads as
\* a placeholder
VarValues == {<<"v">>, <<"{{a}}">>, <<"{{b}}">>}

\* the keyword arguments of parse_prompt and build_prompt, in their order:
\* none, one of a and b, both in either order, the one of "mac-risk"
VarLists ==
    {<< >>, VariablesOf("mac-risk")}
        \cup {<< <<k, v>> >> : k \in {"a", "b"}, v \in VarValues}
        \cup {<< <<"a", v>>, <<"b", w>> >> : v \in VarValues, w \in VarValues}
        \cup {<< <<"b", w>>, <<"a", v>> >> : v \in VarValues, w \in VarValues}

\* the texts the deterministic query may fetch
FetchedTexts == {<<"no risk">>, <<"see ", "{{result}}">>}

PpIdle == <<appVars, inVars, task, ready, elapsed, dirVars, declared, log, exc, ret, nChat,
            clientVars, callVars, loopVars, envVars>>

\* prompts.py 176, 324: load_prompt gives the body of a template
PpLoad ==
    /\ pc = "idle"
    /\ \E b \in Bodies : body' = b
    /\ \E vs \in VarLists : variables' = vs
    /\ pc' = "pp_loaded"
    /\ UNCHANGED <<PpIdle, built, paVars>>

\* prompts.py 186-188, 328-332: the variables are filled in
PpBuild ==
    /\ pc = "pp_loaded"
    /\ built' = SomeText(Substitute(body, variables))
    /\ pc' = "pp_built"
    /\ UNCHANGED <<PpIdle, body, variables, paVars>>

\* prompts.py 190-206, 241-254: the sections are taken apart
PpParse ==
    /\ pc = "pp_built"
    /\ parsed' = ParseContent(built.val)
    /\ pc' = "pp_parsed"
    /\ UNCHANGED <<PpIdle, body, variables, built, mcp_data, sent>>

\* main.py 84-90, 138-142: a query was extracted and has fetched a text;
\* the text is filled into the analysis prompt
PpFill ==
    /\ pc = "pp_parsed"
    /\ ~parsed.mcp_query.null
    /\ \E text \in FetchedTexts :
         /\ mcp_data' = SomeText(text)
         /\ sent' = SomeText(FillData(parsed.analysis_prompt, text))
    /\ pc' = "pp_filled"
    /\ UNCHANGED <<PpIdle, body, variables, built, parsed>>

ParseNext ==
    \/ PpLoad
    \/ PpBuild
    \/ PpParse
    \/ PpFill

SpecParse == Init /\ [][ParseNext]_vars

\* ------------------------------------------------------------ directory
\* history.py on a directory that several script runs share: the clock
\* and uuid4 give what they may give, files get damaged, and update_run
\* is the two file operations it is made of
DamageKinds == {"json", "os", "bytes", "value"}

\* history.py 53, 37: what reading and decoding a damaged file raises;
\* "value" is a file that holds JSON, but no object
DamageError(kind) ==
    CASE kind = "json" -> "JSONDecodeError"
      [] kind = "os" -> "OSError"
      [] kind = "bytes" -> "UnicodeDecodeError"
      [] kind = "value" -> "none"

\* history.py 54: the exceptions list_runs skips a file for
Skipped == {"JSONDecodeError", "OSError"}

\* the values uuid4().hex[:8] may give
UuidSet == Range(UuidValues)

Without(f, id) == [i \in DOMAIN f \ {id} |-> f[i]]

\* history.py 56: the entries in descending order of started_at; entries
\* of the same time stand in the order glob gave them, which is any
Descending(st) ==
    LET n == Cardinality(DOMAIN st) IN
    {s \in [1..n -> DOMAIN st] :
        /\ \A i \in 1..n : \A j \in 1..n : i # j => s[i] # s[j]
        /\ \A i \in 1..n : \A j \in 1..n :
               i < j => st[s[i]].started_at >= st[s[j]].started_at}

\* history.py 47-57 list_runs: what the call may give on the directory
ListRuns(st, dm) ==
    IF \E id \in DOMAIN dm : DamageError(dm[id]) \notin Skipped \cup {"none"}
    THEN {[done |-> TRUE, raised |-> DamageError(dm[id]), entries |-> << >>] :
            id \in {i \in DOMAIN dm :
                      DamageError(dm[i]) \notin Skipped \cup {"none"}}}
    ELSE IF \E id \in DOMAIN dm : DamageError(dm[id]) = "none"
    THEN {[done |-> TRUE, raised |-> "AttributeError", entries |-> << >>]}
    ELSE {[done |-> TRUE, raised |-> "none",
           entries |-> [i \in 1..Len(s) |-> st[s[i]]]] : s \in Descending(st)}

HsIdle == <<appPc, exitPath, inVars, task, ready, elapsed, body, variables,
            built, declared, log, pc, exc, ret, nChat, clientVars, callVars, loopVars,
            paVars, envVars>>

\* history.py 15-31 save_run: the id is made of the second of the clock
\* and of eight digits of uuid4; the file of that name is written
HsSaveRun ==
    /\ runs < MaxSaves
    /\ runs' = runs + 1
    /\ \E t \in {now, ClockAfter(now)} :
       \E sfx \in UuidSet :
         LET id == [ts |-> t, sfx |-> sfx] IN
         /\ now' = t
         /\ run_id' = id
         /\ store' = SaveRun(store, id, "Free-form Query", NoPromptId, t)
         /\ damaged' = Without(damaged, id)
    /\ UNCHANGED <<HsIdle, escaped, updateCalls, listing, cleared, pending>>

\* a file of the directory is damaged: cut short, unreadable, no text,
\* or no record
HsDamage ==
    /\ Cardinality(DOMAIN damaged) < MaxDamaged
    /\ \E id \in DOMAIN store :
       \E kind \in DamageKinds :
         /\ store' = Without(store, id)
         /\ damaged' = [i \in DOMAIN damaged \cup {id} |->
                           IF i = id THEN kind ELSE damaged[i]]
    /\ UNCHANGED <<HsIdle, escaped, run_id, runs, updateCalls, now, listing,
                   cleared, pending>>

\* history.py 47-57 list_runs, called once
HsListRuns ==
    /\ ~listing.done
    /\ listing' \in ListRuns(store, damaged)
    /\ UNCHANGED <<HsIdle, escaped, run_id, runs, store, updateCalls, now,
                   damaged, cleared, pending>>

\* history.py 71-77 clear_history, called once: every file is removed
\* and counted
HsClearHistory ==
    /\ cleared.null
    /\ cleared' = SomeTime(Cardinality(DOMAIN store)
                           + Cardinality(DOMAIN damaged))
    /\ store' = EmptyStore
    /\ damaged' = EmptyStore
    /\ UNCHANGED <<HsIdle, escaped, run_id, runs, updateCalls, now, listing,
                   pending>>

\* history.py 36-43 update_run on the run in progress: the file is read
\* and decoded, the fields are merged in memory
HsUpdateRead ==
    /\ pending.null
    /\ run_id # NoRun
    /\ Len(updateCalls) < MaxDirUpdates
    /\ \E status \in Terminal :
         LET t == ClockAfter(now)
             result == SomeText(<<"r">>)
             lg == SomeList(<< <<"line">> >>) IN
         /\ updateCalls' = Append(updateCalls,
                                  UpdateCall(run_id, status, result, lg))
         /\ IF run_id \in DOMAIN store
            THEN /\ pending' = [null |-> FALSE, id |-> run_id,
                                entry |-> MergeEntry(store[run_id], status,
                                                     result, lg, t)]
                 /\ now' = t
                 /\ escaped' = "none"
            ELSE /\ escaped' =
                      IF run_id \notin DOMAIN damaged
                      THEN "FileNotFoundError"
                      ELSE IF damaged[run_id] = "value" THEN "TypeError"
                      ELSE DamageError(damaged[run_id])
                 /\ UNCHANGED <<pending, now>>
    /\ UNCHANGED <<HsIdle, run_id, runs, store, damaged, listing, cleared>>

\* history.py 44: the merged entry is written to the file of the run
HsUpdateWrite ==
    /\ ~pending.null
    /\ store' = [i \in DOMAIN store \cup {pending.id} |->
                    IF i = pending.id THEN pending.entry ELSE store[i]]
    /\ damaged' = Without(damaged, pending.id)
    /\ pending' = NoPending
    /\ UNCHANGED <<HsIdle, escaped, run_id, runs, updateCalls, now, listing,
                   cleared>>

HistoryNext ==
    \/ HsSaveRun
    \/ HsDamage
    \/ HsListRuns
    \/ HsClearHistory
    \/ HsUpdateRead
    \/ HsUpdateWrite

SpecHistory == Init /\ [][HistoryNext]_vars

\* ------------------------------------------------------------ tools alone
\* the Tools section of a prompt, taken alone; a token is a whole line
ToolLineTexts ==
    {"none", " None ", "- none", "- armis-mcp", "- Splunk", "see notes",
     "No tools needed"}

\* str.strip().lower() of a line
Normal(line) ==
    CASE line = " None " -> "none"
      [] line = "- Splunk" -> "- splunk"
      [] line = "No tools needed" -> "no tools needed"
      [] OTHER -> line

\* prompts.py 158, 234: the lines that say the prompt needs no tool
SaysNone(line) ==
    \/ line \in {"none", "none.", "n/a", "-"}
    \/ line \in {"no tools needed"}

\* prompts.py 161, 237: re.match on "- name" (the optional backquotes
\* left out): the tool the line names, "" when it names none
ToolNamed(line) ==
    CASE line = "- armis-mcp" -> "armis-mcp"
      [] line = "- splunk" -> "splunk"
      [] line = "- none" -> "none"
      [] OTHER -> ""

\* str.split("\n"): the lines of a text, cur being the line under way
RECURSIVE SplitLines(_, _)
SplitLines(text, cur) ==
    IF text = << >> THEN <<cur>>
    ELSE IF Head(text) = "\n" THEN <<cur>> \o SplitLines(Tail(text), "")
    ELSE SplitLines(Tail(text), cur \o Head(text))

\* a loop that passes over a line that says none and goes on
RECURSIVE ToolLinesSkipNone(_, _)
ToolLinesSkipNone(lines, acc) ==
    IF lines = << >> THEN acc
    ELSE LET line == Normal(Head(lines)) IN
         IF SaysNone(line) THEN ToolLinesSkipNone(Tail(lines), acc)
         ELSE ToolLinesSkipNone(Tail(lines),
                                IF ToolNamed(line) # ""
                                THEN Append(acc, ToolNamed(line)) ELSE acc)

\* prompts.py 154-165, 230-239: the loop over the lines; a line that says
\* none ends it with no tools, a line that names a tool adds the tool
RECURSIVE ToolLines(_, _)
ToolLines(lines, acc) ==
    IF lines = << >> THEN acc
    ELSE LET line == Normal(Head(lines)) IN
         IF SaysNone(line) THEN << >>
         ELSE ToolLines(Tail(lines),
                        IF ToolNamed(line) # ""
                        THEN Append(acc, ToolNamed(line)) ELSE acc)

\* prompts.py 139-165 extract_tools, 229-239 parse_content: the tools of
\* the Tools section, none when the section is missing or empty
DeclaredTools(text) ==
    LET section == ExtractSection(text, "Tools") IN
    IF section.null \/ section.val = << >> THEN << >>
    ELSE ToolLines(SplitLines(section.val, ""), << >>)

\* the sequences of n lines
RECURSIVE LinesOfLen(_)
LinesOfLen(n) ==
    IF n = 0 THEN {<< >>}
    ELSE {Append(t, x) : t \in LinesOfLen(n - 1), x \in ToolLineTexts}

\* the lines with a line end between them
RECURSIVE Joined(_)
Joined(lines) ==
    IF lines = << >> THEN << >>
    ELSE IF Len(lines) = 1 THEN lines
    ELSE <<Head(lines), "\n">> \o Joined(Tail(lines))

\* prompt bodies with a Tools section of up to MaxToolLines lines, which
\* is the last section or has the query section after it
ToolBodies ==
    LET sections == {<<"## Tools", "\n">> \o Joined(l) :
                        l \in UNION {LinesOfLen(n) : n \in 0..MaxToolLines}}
    IN sections \cup {s \o <<"\n", "\n", "## MCP Query", "\n", "none">> :
                         s \in sections}

TlIdle == <<appVars, inVars, task, ready, elapsed, variables, built, dirVars,
            log, exc, ret, nChat, clientVars, callVars, loopVars, paVars,
            envVars>>

\* prompts.py 146, 227: the body of a prompt is at hand
TlLoad ==
    /\ pc = "idle"
    /\ \E b \in ToolBodies : body' = b
    /\ pc' = "tl_loaded"
    /\ UNCHANGED <<TlIdle, declared>>

\* prompts.py 139-165 extract_tools (parse_prompt, line 184)
TlExtractTools ==
    /\ pc = "tl_loaded"
    /\ declared' = DeclaredTools(body)
    /\ pc' = "tl_extracted"
    /\ UNCHANGED <<TlIdle, body>>

\* prompts.py 229-239 parse_content
TlParseContent ==
    /\ pc = "tl_loaded"
    /\ declared' = DeclaredTools(body)
    /\ pc' = "tl_parsed"
    /\ UNCHANGED <<TlIdle, body>>

ToolsNext ==
    \/ TlLoad
    \/ TlExtractTools
    \/ TlParseContent

SpecTools == Init /\ [][ToolsNext]_vars

\* ------------------------------------------------------------ callback
\* call_tool taken alone with a status callback that may raise
CallbackError == <<"display gone">>

\* mcp_client.py 93-95: the heartbeat task is resumed after its sleep and
\* the status callback raises; the task ends with that exception
HbBeatFails ==
    /\ ready # << >>
    /\ Head(ready) = "heartbeat"
    /\ task = "woken"
    /\ elapsed' = elapsed + 1
    /\ task' = "failed"
    /\ ready' = Tail(ready)
    /\ UNCHANGED <<HbIdle, pc, exc, ret, log, callVars, budget>>

\* mcp_client.py 99-105: the caller is resumed with the answer; cancel()
\* does nothing to a task that has ended, and `await task` raises the
\* exception the task ended with, which is no CancelledError: it leaves
\* the finally block in place of the answer
HbFinallyFailed ==
    /\ ready # << >>
    /\ Head(ready) = "main"
    /\ pc = "await_coro"
    /\ task = "failed"
    /\ ready' = Tail(ready)
    /\ ret' = NoneText
    /\ exc' = Exc("Exception", CallbackError)
    /\ pc' = "idle"
    /\ UNCHANGED <<HbIdle, log, callVars, task, elapsed, budget>>

CallbackNext ==
    \/ HeartbeatNext
    \/ HbBeatFails
    \/ HbFinallyFailed

SpecCallback == Init /\ [][CallbackNext]_vars

\* ============================================================ properties
IsPrefix(s, t) == Len(s) <= Len(t) /\ \A i \in 1..Len(s) : s[i] = t[i]

\* the tool calls the assistant messages of a conversation request, in order
RECURSIVE Requested(_)
Requested(msgs) ==
    IF msgs = << >> THEN << >>
    ELSE (IF Head(msgs).role = "assistant" THEN Head(msgs).tool_calls
          ELSE << >>) \o Requested(Tail(msgs))

ToolMessages(msgs) == SelectSeq(msgs, LAMBDA m : m.role = "tool")
AssistantMessages(msgs) == SelectSeq(msgs, LAMBDA m : m.role = "assistant")

\* every reply of the backend so far asked for at least one tool call
EveryTurnRequestsTools ==
    \A i \in 1..Len(messages) :
        messages[i].role = "assistant" => messages[i].tool_calls # << >>

\* query_with_tools has returned to run_freeform_query
LoopReturned == mode = "freeform" /\ pc = "ff_after"

\* the tool message the loop appends for a settled call
ToolMessageOf(s) ==
    [role |-> "tool",
     content |-> SomeText(IF s.ok THEN s.text
                          ELSE <<"Error calling tool: ">> \o s.text),
     tool_calls |-> << >>]

\* ------------------------------------------------------------ C1
\* C1: against a backend that requests a tool call on every turn the loop
\* never invokes the backend more than MAX_TOOL_ITERATIONS times, and when
\* it returns it has invoked it exactly MAX_TOOL_ITERATIONS times and hands
\* back a text (not null), whatever the calls returned or raised
C1_LoopTerminatesAfterMaxIterations ==
    mode = "freeform" =>
        /\ nChat <= 5
        /\ iteration <= 5
        /\ (LoopReturned /\ EveryTurnRequestsTools) =>
               /\ nChat = 5
               /\ Len(AssistantMessages(messages)) = 5
               /\ ~ret.null

\* C1 witness: a loop that returned after five tool-requesting turns, one
\* of whose calls failed and one of whose calls returned text
C1_Witness ==
    /\ LoopReturned
    /\ EveryTurnRequestsTools
    /\ nChat = 5
    /\ \E i, j \in 1..Len(settled) : settled[i].ok /\ ~settled[j].ok

\* ------------------------------------------------------------ C2
\* C2: a step of the agent loop in which a tool call fails (and the run
\* is not interrupted) raises nothing; it appends the tool message that
\* holds "Error calling tool: <error>" and moves on to the next call of
\* the turn when there is one, else to the next backend turn
C2_Step ==
    (/\ mode = "freeform"
     /\ pc = "qwt_await"
     /\ Len(settled') = Len(settled) + 1
     /\ ~settled'[Len(settled')].ok
     /\ exc'.kind # "BaseException")
    =>
    (/\ exc' = NoExc
     /\ messages' = Append(messages,
            [role |-> "tool",
             content |-> SomeText(<<"Error calling tool: ">>
                                  \o settled'[Len(settled')].text),
             tool_calls |-> << >>])
     /\ IF idx < Len(tool_calls)
        THEN pc' = "qwt_call" /\ idx' = idx + 1 /\ iteration' = iteration
        ELSE pc' = "qwt_iter" /\ iteration' = iteration + 1)

C2_ToolFailureStaysInLoop == [][C2_Step]_vars

\* C2 witness: the first call of a turn failed, the second call of that
\* turn was served after it and the backend was asked again afterwards
C2_Witness ==
    /\ mode = "freeform"
    /\ \E i \in 1..Len(messages) :
         /\ messages[i].role = "tool"
         /\ messages[i].content = SomeText(<<"Error calling tool: ", "timeout">>)
         /\ i + 2 <= Len(messages)
         /\ messages[i + 1].role = "tool"
         /\ messages[i + 1].content = SomeText(<<"data">>)
         /\ messages[i + 2].role = "assistant"

\* ------------------------------------------------------------ C3
\* C3: in a free-form run at most one call is in flight, a call is started
\* only when every earlier call has settled, the calls started are the
\* calls the assistant messages requested, in their order and without any
\* other call, and the tool messages are the answers in that same order
C3_SequentialToolCalls ==
    mode = "freeform" =>
        /\ Len(inflight) <= 1
        /\ Len(settled) + Len(inflight) <= Len(callLog)
        /\ Len(callLog) <= Len(settled) + 1
        /\ IsPrefix(callLog, Requested(messages))
        /\ \A i \in 1..Len(settled) : settled[i].call = callLog[i]
        /\ LET tm == ToolMessages(messages) IN
             /\ Len(tm) <= Len(settled)
             /\ Len(settled) <= Len(tm) + 1
             /\ \A i \in 1..Len(tm) : tm[i] = ToolMessageOf(settled[i])

\* C3 witness: a turn that requested search and then lookup was served in
\* that order, the first call failing and the second returning text
C3_Witness ==
    /\ mode = "freeform"
    /\ Len(messages) >= 5
    /\ messages[3].tool_calls = <<CallSearch, CallLookup>>
    /\ Len(settled) >= 2
    /\ settled[1].call = CallSearch /\ ~settled[1].ok
    /\ settled[2].call = CallLookup /\ settled[2].ok
    /\ messages[4].content = SomeText(<<"Error calling tool: ", "timeout">>)
    /\ messages[5].content = SomeText(<<"data">>)

\* ------------------------------------------------------------ C4
\* C4: an assistant message without tool calls is the last message of the
\* conversation; the loop has then returned its content as it is ("" when
\* it has none), the backend was invoked once per assistant message and
\* every call requested before was served and no other; when that message
\* is the first reply there was one invocation and no call
C4_ToolFreeReplyEndsLoop ==
    mode = "freeform" =>
        \A i \in 1..Len(messages) :
            (messages[i].role = "assistant" /\ messages[i].tool_calls = << >>)
            =>
            /\ i = Len(messages)
            /\ pc \in {"ff_after", "aexit", "out"}
            /\ ret = SomeText(IF messages[i].content.null THEN << >>
                              ELSE messages[i].content.val)
            /\ nChat = Len(AssistantMessages(messages))
            /\ callLog = Requested(messages)
            /\ Len(settled) = Len(callLog)
            /\ inflight = << >>
            /\ (i = 3 => nChat = 1 /\ callLog = << >>)

\* C4 witness: the second reply carried no tool calls and its text was
\* returned after one served tool turn
C4_Witness ==
    /\ LoopReturned
    /\ nChat = 2
    /\ messages[Len(messages)].role = "assistant"
    /\ messages[Len(messages)].tool_calls = << >>
    /\ ret = SomeText(<<"answer">>)
    /\ callLog # << >>

\* ------------------------------------------------------------ C5
\* the loop returned because the iterations ran out
Truncated == LoopReturned /\ iteration = 5

\* C5: at truncation the loop returns the text of the last message of the
\* conversation, and that message is always the tool message of the last
\* call of the fifth turn, never an assistant message
C5_TruncationReturnsLastToolResult ==
    Truncated =>
        /\ messages # << >>
        /\ messages[Len(messages)].role = "tool"
        /\ messages[Len(messages)] = ToolMessageOf(settled[Len(settled)])
        /\ ret = messages[Len(messages)].content

\* C5 witness: a truncated loop returned the error text of its last call
C5_Witness ==
    /\ Truncated
    /\ ret = SomeText(<<"Error calling tool: ", "timeout">>)

\* C5 as stated: at truncation the message whose text is returned is an
\* assistant message that still requests tools
C5_AsStated ==
    Truncated =>
        /\ messages[Len(messages)].role = "assistant"
        /\ messages[Len(messages)].tool_calls # << >>
        /\ ret = messages[Len(messages)].content

\* ------------------------------------------------------------ C6
CallsFor(calls, id) == {i \in 1..Len(calls) : calls[i].id = id}

\* C6: an entry is created with status running; update_run is called
\* only when a run block ends, then exactly once for the run, with
\* complete, failed or cancelled, which becomes the status of the entry;
\* an entry with a terminal status is never written again
C6_Step ==
    /\ DOMAIN store \subseteq DOMAIN store'
    /\ \A id \in DOMAIN store' \ DOMAIN store :
         store'[id].status = "running"
    /\ \A id \in DOMAIN store :
         store[id].status \in Terminal => store'[id] = store[id]
    /\ (appPc = "try" /\ appPc' = "ended") =>
         /\ Len(updateCalls') = Len(updateCalls) + 1
         /\ updateCalls'[Len(updateCalls')].id = run_id
         /\ updateCalls'[Len(updateCalls')].status \in Terminal
         /\ Cardinality(CallsFor(updateCalls', run_id)) = 1
         /\ store'[run_id].status = updateCalls'[Len(updateCalls')].status
    /\ ~(appPc = "try" /\ appPc' = "ended") => updateCalls' = updateCalls

WorkBegun ==
    \/ cm # "none"
    \/ session # "none"
    \/ callLog # << >>
    \/ nChat > 0

\* C7: while a run block is in progress the entry of its run is in the
\* store with status running, and no work is done outside a run block
C7_RunningEntryBeforeWork ==
    /\ appPc = "try" =>
         /\ run_id \in DOMAIN store
         /\ store[run_id].id = run_id
         /\ store[run_id].status = "running"
         /\ store[run_id].finished_at.null
    /\ WorkBegun => appPc = "try"

\* C7 witness: a tool call is in flight and the entry of the run is there
\* as save_run wrote it
C7_Witness ==
    /\ appPc = "try"
    /\ inflight # << >>
    /\ run_id \in DOMAIN store
    /\ store[run_id].status = "running"
    /\ store[run_id].log = << >>

\* ------------------------------------------------------------ C8
\* C8: when an interruption (no ordinary exception) left the coroutine
\* and the run block ends, the entry of the run has become cancelled,
\* with the cancellation text as result and the collected log followed by
\* the cancellation line, and the interruption is what leaves the block
C8_Step ==
    (/\ appPc = "try"
     /\ pc = "out"
     /\ exc.kind = "BaseException"
     /\ appPc' = "ended")
    =>
    (/\ store' = [store EXCEPT ![run_id] =
            [store[run_id] EXCEPT
                !.status = "cancelled",
                !.result = SomeText(<<"**Run cancelled** - interrupted.">>),
                !.log = Append(log, <<"[CANCELLED] Run interrupted">>),
                !.finished_at = SomeTime(now')]]
     /\ now' > now
     /\ escaped' = "BaseException")

C8_CancelledBeforeReraise == [][C8_Step]_vars

\* C8 witness: a run interrupted while a tool call was in flight ended
\* with a cancelled entry that holds the log collected until then
C8_Witness ==
    /\ appPc = "ended"
    /\ escaped = "BaseException"
    /\ store[run_id].status = "cancelled"
    /\ Len(store[run_id].log) >= 2
    /\ store[run_id].log[Len(store[run_id].log) - 1] = <<"Calling: ", "lookup">>
    /\ store[run_id].log[Len(store[run_id].log)] = <<"[CANCELLED] Run interrupted">>

\* ------------------------------------------------------------ C9
\* C9: when an ordinary exception left the coroutine and the run block
\* ends, the entry of the run has become failed, with "**Run failed:** "
\* and the error text as result and the collected log followed by the
\* error line, and the exception itself does not leave the block
C9_Step ==
    (/\ appPc = "try"
     /\ pc = "out"
     /\ exc.kind = "Exception"
     /\ appPc' = "ended")
    =>
    (/\ store' = [store EXCEPT ![run_id] =
            [store[run_id] EXCEPT
                !.status = "failed",
                !.result = SomeText(<<"**Run failed:** ">> \o exc.msg),
                !.log = Append(log, <<"[ERROR] ">> \o exc.msg),
                !.finished_at = SomeTime(now')]]
     /\ now' > now
     /\ escaped' # "Exception")

C9_FailedBeforeLeaving == [][C9_Step]_vars

\* C9 witness: one run failed on the connection and another on a server
\* without tools; both entries are failed and carry the error text
C9_Witness ==
    \E a, b \in DOMAIN store :
        /\ store[a].status = "failed"
        /\ store[a].result = SomeText(<<"**Run failed:** ", "connection refused">>)
        /\ store[b].status = "failed"
        /\ store[b].result =
               SomeText(<<"**Run failed:** ", "No tools available on MCP server">>)
        /\ store[b].log[Len(store[b].log)] =
               <<"[ERROR] ", "No tools available on MCP server">>

\* ------------------------------------------------------------ C10
\* C10: save_run adds an entry with status running and touches no other;
\* update_run on an existing id sets status and finished_at, sets result
\* only when a result is passed and log only when a log is passed, and
\* leaves id, label, prompt_id, started_at and every other entry as they
\* were
C10_Step ==
    /\ \A id \in DOMAIN store' \ DOMAIN store :
         /\ store'[id].status = "running"
         /\ store'[id].result.null
         /\ store'[id].finished_at.null
         /\ \A other \in DOMAIN store : store'[other] = store[other]
    /\ updateCalls' # updateCalls =>
         LET c == updateCalls'[Len(updateCalls')] IN
         /\ DOMAIN store' = DOMAIN store
         /\ \A other \in DOMAIN store \ {c.id} : store'[other] = store[other]
         /\ c.id \in DOMAIN store =>
              /\ store'[c.id].status = c.status
              /\ store'[c.id].finished_at = SomeTime(now')
              /\ store'[c.id].result =
                     (IF c.result.null THEN store[c.id].result ELSE c.result)
              /\ store'[c.id].log =
                     (IF c.log.null THEN store[c.id].log ELSE c.log.val)
              /\ store'[c.id].id = store[c.id].id
              /\ store'[c.id].label = store[c.id].label
              /\ store'[c.id].prompt_id = store[c.id].prompt_id
              /\ store'[c.id].started_at = store[c.id].started_at

C10_UpdateRunIsFieldMerge == [][C10_Step]_vars

\* C10 witness: an entry was updated with a log only and then with
\* complete and a result only; it is complete, has the result, a
\* finished_at and the log of before
C10_Witness ==
    \E id \in DOMAIN store :
        /\ Len(updateCalls) = 2
        /\ updateCalls[1] = UpdateCall(id, "failed", NoneText,
                                       SomeList(<< <<"line">> >>))
        /\ updateCalls[2] = UpdateCall(id, "complete", SomeText(<<"r">>),
                                       NoneList)
        /\ store[id].status = "complete"
        /\ store[id].result = SomeText(<<"r">>)
        /\ ~store[id].finished_at.null
        /\ store[id].log = << <<"line">> >>

\* ------------------------------------------------------------ C11
\* C11: a heartbeat line is reported only while the call is in flight
\* (none once the server has answered or failed the call), and when
\* call_tool has returned or raised the heartbeat task has ended
C11_Step ==
    /\ log' # log => inflight # << >>
    /\ pc' = "idle" => task' \in {"none", "cancelled"}

C11_NoBeatAfterCallResolved == [][C11_Step]_vars

\* the part of C11 about the task: call_tool returns or raises only when
\* the heartbeat task has ended
C11_TaskJoined ==
    pc = "idle" => task \in {"none", "cancelled"} /\ ready = << >>


\* ------------------------------------------------------------ C12
\* C12: whatever way the coroutine is left (a failure of the connection,
\* of initialize, of the first listing, of a tool call, of the closing
\* itself, or an interruption), no transport and no session it opened is
\* still open
C12_TeardownOnEveryExit ==
    pc = "out" => cm # "open" /\ session # "open"

\* ------------------------------------------------------------ C13
\* C13: within one session the server is asked for its tools at most once,
\* also when the list it gave is empty; every later list_tools gives the
\* cached list, the one whose names the connection line reported
C13_ToolListFetchedOnce ==
    /\ nList <= 1
    /\ ~tools.null => nList = 1
    /\ entered =>
         /\ ~tools.null
         /\ \E i \in 1..Len(log) :
              log[i] = <<"[MCP] Connected.">> \o Names(tools.val)

\* a second list_tools, of the loop, was served from an empty cached list
C13_Witness ==
    /\ pc = "qwt_iter"
    /\ tools = SomeList(<< >>)
    /\ nList = 1

\* ------------------------------------------------------------ C14
\* the field C14 names for a tool: the first of query, prompt, question,
\* input, text, message that the tool declares, else the field it
\* declares first, else "query"
C14_Field(props) ==
    LET has(n) == \E i \in 1..Len(props) : props[i] = n IN
    IF has("query") THEN "query"
    ELSE IF has("prompt") THEN "prompt"
    ELSE IF has("question") THEN "question"
    ELSE IF has("input") THEN "input"
    ELSE IF has("text") THEN "text"
    ELSE IF has("message") THEN "message"
    ELSE IF Len(props) > 0 THEN props[1]
    ELSE "query"

\* C14: query() makes exactly one call, to the first tool listed, with the
\* query text in the one field chosen by the priority order; on a session
\* without tools it raises "No tools available on MCP server" and calls
\* nothing
C14_QueryCallsFirstTool ==
    pc \notin {"idle", "pa_query"} =>
      IF tools.val = << >>
      THEN /\ callLog = << >>
           /\ exc = Exc("Exception", <<"No tools available on MCP server">>)
      ELSE /\ Len(callLog) = 1
           /\ callLog[1].name = tools.val[1].name
           /\ callLog[1].arguments =
                << <<C14_Field(tools.val[1].props),
                     <<"find ", "AA:BB">>>> >>

\* the call went to a tool that declares a preferred field after another
\* field, and the server has answered it
C14_Witness ==
    /\ pc = "pa_analyze"
    /\ tools.val[1].props = <<"foo", "question">>
    /\ callLog[1].arguments[1][1] = "question"

\* ------------------------------------------------------------ C15
\* C15: every record with a terminal status holds a result text that is
\* not empty
C15_TerminalResultNonEmpty ==
    \A id \in DOMAIN store :
        store[id].status \in Terminal =>
            ~store[id].result.null /\ store[id].result.val # << >>

\* ------------------------------------------------------------ C16
\* C16: whatever the template body and the variables, when the text has
\* no "## MCP Query" line the parsed prompt has no query and its analysis
\* text is not empty
C16_NoQuerySectionGivesAnalysis ==
    /\ pc \in {"pp_parsed", "pp_filled"}
    /\ \A i \in 1..Len(body) : body[i] # "## MCP Query"
    => /\ parsed.mcp_query.null
       /\ parsed.analysis_prompt # << >>

\* ------------------------------------------------------------ C18
\* the text C18 describes: each token of the original text that is the
\* placeholder of a supplied variable gives way to the value of that
\* variable, every other token stays
RECURSIVE C18_Literal(_, _)
C18_Literal(text, vs) ==
    IF text = << >> THEN << >>
    ELSE LET hits == {i \in 1..Len(vs) : Placeholder(vs[i][1]) = Head(text)}
         IN (IF hits = {} THEN <<Head(text)>>
             ELSE vs[CHOOSE i \in hits : TRUE][2])
            \o C18_Literal(Tail(text), vs)

C18_Reverse(vs) == [i \in 1..Len(vs) |-> vs[Len(vs) + 1 - i]]

\* C18: the text with its variables filled in is the original text with
\* each placeholder of a supplied variable replaced by its value (nothing
\* a value brought in is replaced again, other placeholders stay), and it
\* is the same when the variables are applied in the opposite order
C18_SubstitutionLiteralAnyOrder ==
    pc \in {"pp_built", "pp_parsed", "pp_filled"} =>
        /\ built.val = C18_Literal(body, variables)
        /\ built.val = Substitute(body, C18_Reverse(variables))

\* ------------------------------------------------------------ C19
\* the text C19 describes: every legacy token of the analysis text gives
\* way to the fetched text
RECURSIVE C19_Filled(_, _)
C19_Filled(text, data) ==
    IF text = << >> THEN << >>
    ELSE (IF Head(text) \in {"{{device_data}}", "{{data}}", "{{mcp_data}}",
                             "{{result}}"}
          THEN data ELSE <<Head(text)>>)
         \o C19_Filled(Tail(text), data)

\* C19: the text sent on is the analysis text with every legacy token
\* replaced by the fetched text; the template "find {{mac}}" /
\* "Summarize: {{result}}" with mac = AA:BB and the fetched text "no risk"
\* gives the query "find AA:BB" and the text "Summarize: no risk"
C19_LegacyTokensFilled ==
    pc = "pp_filled" =>
        /\ sent.val = C19_Filled(parsed.analysis_prompt, mcp_data.val)
        /\ (/\ body = LoadPrompt("mac-risk").val
            /\ variables = << <<"mac", <<"AA:BB">>>> >>
            /\ mcp_data.val = <<"no risk">>)
           => /\ parsed.mcp_query.val = <<"find ", "AA:BB">>
              /\ sent.val = <<"Summarize: ", "no risk">>

\* the part of C19 that is the example
C19_Example ==
    /\ pc = "pp_filled"
    /\ body = LoadPrompt("mac-risk").val
    /\ variables = << <<"mac", <<"AA:BB">>>> >>
    /\ mcp_data.val = <<"no risk">>
    => /\ parsed.mcp_query.val = <<"find ", "AA:BB">>
       /\ sent.val = <<"Summarize: ", "no risk">>

\* ------------------------------------------------------------ C17
\* C17: a prompt run or a custom run on a template without "## MCP Query"
\* opens no transport and no session, lists no tools and calls no tool;
\* when its coroutine returns it has made exactly one chat request, that
\* carried the analysis text, and it returns the text of the reply
C17_LlmOnlyOpensNoSession ==
    mode \in {"prompt", "custom"} /\ template = "llm-only" =>
        /\ cm = "none" /\ session = "none" /\ ~entered
        /\ nList = 0
        /\ callLog = << >>
        /\ nChat <= 1
        /\ pc \in {"pa_begin", "pa_llm_only"} => nChat = 0
        /\ pc = "out" /\ exc.kind = "none" =>
             /\ nChat = 1
             /\ sent = SomeText(<<"Explain the findings">>)
             /\ ret \in {SomeText(<< >>), SomeText(<<"answer">>)}

\* a custom run on the template without a query has returned the reply
C17_Witness ==
    /\ mode = "custom"
    /\ template = "llm-only"
    /\ pc = "out"
    /\ exc.kind = "none"
    /\ nChat = 1
    /\ ret = SomeText(<<"answer">>)

\* ------------------------------------------------------------ C20
\* C20: when the query returned an empty or all-white-space text the
\* fallback sentence stands for the fetched data, no exception is raised
\* for it, and the one chat request of the run carries the sentence in
\* place of the data
C20_BlankAnswerGetsFallback ==
    /\ mode \in {"prompt", "custom"}
    /\ settled # << >>
    /\ Last(settled).ok
    /\ Last(settled).text \in {<< >>, <<" ", "\n">>}
    => /\ pc \in {"pa_analyze", "aexit", "out"}
       /\ mcp_data = SomeText(<<"No data returned from Armis.">>)
       /\ pc = "pa_analyze" => exc.kind = "none" /\ nChat = 0
       /\ pc # "pa_analyze" /\ exc.kind # "BaseException" =>
            /\ nChat = 1
            /\ sent = SomeText(<<"Summarize: ",
                                 "No data returned from Armis.">>)

\* the run on a white-space answer has returned the analysis
C20_Witness ==
    /\ mode = "prompt"
    /\ settled # << >>
    /\ Last(settled).text = <<" ", "\n">>
    /\ pc = "out"
    /\ exc.kind = "none"
    /\ nChat = 1
    /\ ret = SomeText(<<"answer">>)

\* ------------------------------------------------------------ C21
\* C21: list_runs does not fail whatever is wrong with a file of the
\* directory; it gives every readable record and no other, newest first
C21_Step ==
    listing' # listing =>
        /\ listing'.raised = "none"
        /\ Len(listing'.entries) = Cardinality(DOMAIN store)
        /\ \A id \in DOMAIN store :
               \E i \in 1..Len(listing'.entries) :
                   listing'.entries[i] = store[id]
        /\ \A i \in 1..Len(listing'.entries) :
           \A j \in 1..Len(listing'.entries) :
               i < j => listing'.entries[i].started_at
                            >= listing'.entries[j].started_at

C21_ListRunsSkipsBadFiles == [][C21_Step]_vars

\* ------------------------------------------------------------ C22
\* C22: the id save_run returns is the id of no record of the directory,
\* also when the record was made in the same second: save_run writes a
\* new record and leaves every other as it was
C22_Step ==
    runs' = runs + 1 =>
        /\ run_id' \notin DOMAIN store
        /\ \A id \in DOMAIN store : store'[id] = store[id]

C22_RunIdsUnique == [][C22_Step]_vars

\* ------------------------------------------------------------ C27
\* C27: only save_run creates a record: an update_run of a run whose
\* record clear_history removed fails and writes nothing, so the record
\* stays away; clear_history returns the number of files it removed
C27_Step ==
    /\ runs' = runs => DOMAIN store' \cup DOMAIN damaged'
                           \subseteq DOMAIN store \cup DOMAIN damaged
    /\ cleared' # cleared =>
         /\ cleared'.val = Cardinality(DOMAIN store)
                           + Cardinality(DOMAIN damaged)
         /\ store' = EmptyStore

C27_UpdateRunNeverCreates == [][C27_Step]_vars

\* the part of C27 about an update_run that begins after the record was
\* removed: it raises FileNotFoundError and the directory is as before
C27_UpdateAfterClear ==
    [][(/\ Len(updateCalls') > Len(updateCalls)
        /\ run_id \notin DOMAIN store \cup DOMAIN damaged)
       => /\ escaped' = "FileNotFoundError"
          /\ pending' = NoPending
          /\ store' = store]_vars

\* ------------------------------------------------------------ C23
\* C23: the status callback has no part in the control flow: what
\* call_tool returns or raises is what the server answered to the call,
\* whether the callback of the heartbeat returned or failed
C23_CallbackNeverAffectsOutcome ==
    pc = "idle" /\ settled # << >> =>
        IF Last(settled).ok
        THEN ret = SomeText(Last(settled).text) /\ exc = NoExc
        ELSE exc = Exc("Exception", Last(settled).text)

\* ------------------------------------------------------------ C24
\* the lines of the Tools section of the body, as written
C24_Lines ==
    LET section == ExtractSection(body, "Tools") IN
    IF section.null THEN << >> ELSE SplitLines(section.val, "")

\* C24: when a line of the Tools section is the word none, the declared
\* tools are empty, whatever the other lines are and wherever the line
\* stands, for extract_tools and for parse_content
C24_NoneLineOverrides ==
    /\ pc \in {"tl_extracted", "tl_parsed"}
    /\ \E i \in 1..Len(C24_Lines) : C24_Lines[i] \in {"none", " None "}
    => declared = << >>

\* parse_content met a line that names a tool, then the line none, then
\* another line that names a tool
C24_Witness ==
    /\ pc = "tl_parsed"
    /\ C24_Lines = <<"- armis-mcp", "none", "- Splunk">>
    /\ declared = << >>

\* ------------------------------------------------------------ C25
\* the positions of the loop, from its first turn to its return
C25_InLoop ==
    mode = "freeform" /\ pc \in {"qwt_iter", "qwt_call", "qwt_await", "ff_after"}

\* the tool messages that follow the assistant message at i, up to the
\* next assistant message
C25_Results(i) ==
    LET later == {j \in (i + 1)..Len(messages) :
                     messages[j].role = "assistant"}
        stop == IF later = {} THEN Len(messages) + 1
                ELSE CHOOSE j \in later : \A k \in later : j <= k
    IN [last |-> later = {}, n |-> stop - i - 1]

C25_Shape ==
    /\ Len(messages) >= 2
    /\ messages[1].role = "system"
    /\ messages[2].role = "user"
    /\ \A i \in 3..Len(messages) : messages[i].role \in {"assistant", "tool"}
    /\ Len(messages) >= 3 => messages[3].role = "assistant"
    /\ \A i \in 3..Len(messages) :
         messages[i].role = "assistant" =>
            IF C25_Results(i).last /\ pc \in {"qwt_call", "qwt_await"}
            THEN C25_Results(i).n = idx - 1
                 /\ idx <= Len(messages[i].tool_calls)
            ELSE C25_Results(i).n = Len(messages[i].tool_calls)
    /\ Len(SelectSeq(messages, LAMBDA m : m.role = "assistant")) = nChat
    /\ nChat <= 5

\* C25: all through the agent loop the conversation is one system and one
\* user message, then per backend turn one assistant message followed by
\* one tool message per call it requested (those of the calls served so
\* far in the turn under way); there are as many assistant messages as
\* backend invocations, at most MAX_TOOL_ITERATIONS; messages are only
\* appended
C25_ConversationShape ==
    /\ [](C25_InLoop => C25_Shape)
    /\ [][C25_InLoop /\ C25_InLoop' => IsPrefix(messages, messages')]_vars

\* the loop has returned after a turn that requested two calls, one of
\* which failed, and a later turn
C25_Witness ==
    /\ C25_InLoop
    /\ pc = "ff_after"
    /\ \E i \in 3..Len(messages) :
         /\ messages[i].role = "assistant"
         /\ Len(messages[i].tool_calls) = 2
         /\ ~C25_Results(i).last
         /\ \E j \in {i + 1, i + 2} :
              messages[j].content = SomeText(<<"Error calling tool: ", "timeout">>)

\* ------------------------------------------------------------ C26
\* C26: in the run store the run blocks make, a record is running exactly
\* when it has no finished_at and exactly when it has no result, and a
\* complete, failed or cancelled record has its finished_at; the record
\* of a run stopped before its last write stays running
C26_RunningIffUnfinished ==
    /\ \A id \in DOMAIN store :
         /\ store[id].status \in {"running", "complete", "failed", "cancelled"}
         /\ store[id].status = "running" <=> store[id].finished_at.null
         /\ store[id].status = "running" <=> store[id].result.null
         /\ store[id].status \in {"complete", "failed", "cancelled"}
                => ~store[id].finished_at.null
    /\ appPc = "killed" =>
         /\ run_id \in DOMAIN store
         /\ store[run_id].status = "running"
         /\ store[run_id].finished_at.null

\* the second run was stopped while its call was under way; the record
\* of the first run is finished
C26_Witness ==
    /\ appPc = "killed"
    /\ store[run_id].status = "running"
    /\ store[run_id].finished_at.null
    /\ \E id \in DOMAIN store :
         /\ store[id].status = "failed"
         /\ ~store[id].finished_at.null
         /\ ~store[id].result.null
====
